---- MODULE Spec2Model ----
(***************************************************************************)
(* Model of src/bot.py: the DugTrio Telegram bot.                          *)
(*                                                                         *)
(* One interaction is modelled: an inbound update is dispatched to the     *)
(* first registered handler that matches it, and the handler then runs     *)
(* statement by statement.  Every awaited platform call (query.answer,     *)
(* message.delete, bot.send_message, message.reply_text, bot.send_photo)   *)
(* may succeed or raise; the backend GET may return any status, time out,  *)
(* fail to connect, or return a body the rendering code cannot digest.     *)
(* Every platform call and backend request is appended to log.             *)
(*                                                                         *)
(* Three specifications share these definitions: Spec handles one update   *)
(* to completion, Concurrent interleaves the handlers of two updates in    *)
(* one chat, and Rendering applies the pure rendering code (mood bands,    *)
(* create_bar, the history view) to decoded response bodies.               *)
(*                                                                         *)
(* Strings are sequences of atoms: "sentiment_Solana" is                   *)
(* <<"sentiment", "_", "Solana">>.  An Optional[str] is <<>> for None and  *)
(* <<s>> for the string s.                                                 *)
(***************************************************************************)
EXTENDS Integers, Sequences, FiniteSets, TLC

VARIABLES
    event,           \* the Update being handled (NoEvent before dispatch)
    handler,         \* the callback the Application dispatched to
    pc,              \* the statement the handler is at
    log,             \* platform calls and backend requests, in order
    project_name,    \* Optional[str]
    status_message,  \* Optional[Message]: the pending indicator
    response,        \* outcome of the backend GET
    raising,         \* an exception is propagating out of the handler
    origin,          \* the message the pressed button is attached to
    cur,             \* the interaction whose handler holds the event loop
    suspended,       \* the other interactions, parked at an await
    body,            \* a backend response body handed to the rendering code
    view             \* what the rendering code made of body

vars == <<event, handler, pc, log, project_name, status_message, response,
          raising, origin, cur, suspended, body, view>>

----------------------------------------------------------------------------
(* Bounds *)

\* longest suffix appended to a base token when enumerating callback data
MaxSuffixLen == 2

\* most whitespace-separated arguments after a typed command
MaxArgs == 1

\* scores are fixed-point numbers: ScoreUnit steps to one percent
ScoreUnit == 2

\* how many percent below 0 and above 100 the scores handed to the rendering
\* code range
ScoreMargin == 20

\* longest bar asked of create_bar
MaxBarLength == 12

\* most entries in a history response, and the latest day of the month an
\* entry is dated
MaxEntries == 3
MaxDay == 10

----------------------------------------------------------------------------
(* Strings *)

None == << >>
Some(s) == << s >>

\* Python truthiness of an Optional[str]: None and "" are falsy
Truthy(p) == p /= None /\ p[1] /= << >>

PayloadAtoms == {"Solana", "bonk", "_"}

RECURSIVE SeqsUpTo(_, _)
SeqsUpTo(S, n) ==
    IF n = 0 THEN {<< >>}
    ELSE LET shorter == SeqsUpTo(S, n - 1)
         IN  shorter \cup {Append(s, a) : s \in shorter, a \in S}

\* index of the first "_" of s, 0 when there is none
RECURSIVE FirstSep(_, _)
FirstSep(s, i) ==
    IF i > Len(s) THEN 0
    ELSE IF s[i] = "_" THEN i
    ELSE FirstSep(s, i + 1)

\* str.split('_', 1): at most one split, at the first underscore
Split1(s) ==
    LET k == FirstSep(s, 1)
    IN  IF k = 0 THEN << s >>
        ELSE << SubSeq(s, 1, k - 1), SubSeq(s, k + 1, Len(s)) >>

CapAtom(a) ==
    CASE a = "bonk" -> "Bonk"
      [] a = "BONK" -> "Bonk"
      [] a = "solana" -> "Solana"
      [] OTHER -> a

LowerAtom(a) ==
    CASE a = "Solana" -> "solana"
      [] a = "Bonk" -> "bonk"
      [] a = "BONK" -> "bonk"
      [] OTHER -> a

\* str.capitalize(): first character upper-cased, the rest lower-cased
capitalize(s) ==
    [i \in 1..Len(s) |-> IF i = 1 THEN CapAtom(s[i]) ELSE LowerAtom(s[i])]

----------------------------------------------------------------------------
(* Keyboards: the callback_data of the buttons, in order *)

get_main_menu_keyboard ==
    << <<"menu", "_", "sentiment">>,
       <<"menu", "_", "topprojects">>,
       <<"menu", "_", "analyze", "_", "pnl">>,
       <<"menu", "_", "track", "_", "wallet">>,
       <<"menu", "_", "subscribe">> >>

get_sentiment_keyboard(project) ==
    << <<"sentiment", "_", "Solana">>,
       <<"sentiment", "_", "Jupiter">>,
       <<"sentiment", "_", "Pyth">>,
       <<"sentiment", "_", "Bonk">> >>
    \o (IF Truthy(project) THEN << <<"history", "_">> \o project[1] >> ELSE << >>)
    \o << <<"menu", "_", "start">> >>

----------------------------------------------------------------------------
(* Inbound updates *)

NoEvent == [kind |-> "none"]

CommandNames == {"start", "help", "sentiment", "trackwallet", "pnl", "topprojects"}

ArgWords == {<<"Solana">>, <<"bonk">>}

\* context.args: the whitespace-separated words after the command
ArgLists == SeqsUpTo(ArgWords, MaxArgs)

\* A typed command.  message is update.message; it is absent when the command
\* arrives as an edited message, which CommandHandler also accepts.
TypedCommands ==
    [kind : {"command"}, name : CommandNames, args : ArgLists, message : BOOLEAN]

BaseTokens ==
    { <<"menu", "_", "start">>,
      <<"menu", "_", "sentiment">>,
      <<"menu", "_", "analyze", "_", "pnl">>,
      <<"menu", "_", "track", "_", "wallet">>,
      <<"menu", "_", "subscribe">>,
      <<"menu", "_", "topprojects">>,
      <<"sentiment">>,
      <<"history">> }

CallbackTokens ==
    {b \o s : b \in BaseTokens, s \in SeqsUpTo(PayloadAtoms, MaxSuffixLen)}

\* A button press.  message is callback_query.message, the message the button
\* was attached to; it is absent for buttons of inline-mode messages.
ButtonPresses ==
    [kind : {"button"}, data : CallbackTokens, message : BOOLEAN]

Events == TypedCommands \cup ButtonPresses

\* update.callback_query
HasQuery(e) == e.kind = "button"

\* update.callback_query.message
HasQueryMessage(e) == e.kind = "button" /\ e.message

\* update.message
HasUpdateMessage(e) == e.kind = "command" /\ e.message

\* update.effective_chat, as send_new_message tests it: the chat of the
\* message, of the edited message, or of the message a button was attached to;
\* a button press without that message has none
effective_chat(e) ==
    \/ e.kind = "command"
    \/ e.kind = "button" /\ e.message

\* context.args (CallbackQueryHandler leaves it unset)
Args(e) == IF e.kind = "command" THEN e.args ELSE << >>

----------------------------------------------------------------------------
(* Dispatch: main() registers the handlers in this order; the Application   *)
(* runs the first one whose check accepts the update                        *)

Handlers ==
    << [type |-> "command",  pattern |-> <<"start">>,       exact |-> TRUE, callback |-> "start_command"],
       [type |-> "command",  pattern |-> <<"help">>,        exact |-> TRUE, callback |-> "help_command"],
       [type |-> "command",  pattern |-> <<"sentiment">>,   exact |-> TRUE, callback |-> "sentiment_command"],
       [type |-> "command",  pattern |-> <<"trackwallet">>, exact |-> TRUE, callback |-> "track_wallet_command"],
       [type |-> "command",  pattern |-> <<"pnl">>,         exact |-> TRUE, callback |-> "analyze_pnl_command"],
       [type |-> "callback", pattern |-> <<"menu", "_", "start">>,
                             exact |-> TRUE, callback |-> "start_command"],
       [type |-> "callback", pattern |-> <<"menu", "_", "sentiment">>,
                             exact |-> TRUE, callback |-> "sentiment_menu"],
       [type |-> "callback", pattern |-> <<"menu", "_", "analyze", "_", "pnl">>,
                             exact |-> TRUE, callback |-> "analyze_pnl_prompt"],
       [type |-> "callback", pattern |-> <<"menu", "_", "track", "_", "wallet">>,
                             exact |-> TRUE, callback |-> "track_wallet_prompt"],
       [type |-> "callback", pattern |-> <<"menu", "_", "subscribe">>,
                             exact |-> TRUE, callback |-> "subscribe_command"],
       [type |-> "callback", pattern |-> <<"menu", "_", "topprojects">>,
                             exact |-> TRUE, callback |-> "top_projects_command"],
       [type |-> "callback", pattern |-> <<"sentiment", "_">>,
                             exact |-> FALSE, callback |-> "sentiment_command"],
       [type |-> "callback", pattern |-> <<"history", "_">>,
                             exact |-> FALSE, callback |-> "sentiment_history_command"] >>

\* the patterns without their ^ anchor, as re.search would apply them: a
\* prefix pattern is found anywhere in the string
PatternMatches_Unanchored(h, s) ==
    IF h.exact
    THEN s = h.pattern
    ELSE \E k \in 0..Len(s) :
            /\ k + Len(h.pattern) <= Len(s)
            /\ SubSeq(s, k + 1, k + Len(h.pattern)) = h.pattern

\* re.match of an anchored pattern: ^p$ matches the whole string, ^p a prefix
PatternMatches(h, s) ==
    IF h.exact
    THEN s = h.pattern
    ELSE /\ Len(s) >= Len(h.pattern)
         /\ SubSeq(s, 1, Len(h.pattern)) = h.pattern

\* the handler's check_update
Accepts(h, e) ==
    \/ h.type = "command"  /\ e.kind = "command" /\ PatternMatches(h, <<e.name>>)
    \/ h.type = "callback" /\ e.kind = "button"  /\ PatternMatches(h, e.data)

Matching(e) == {i \in 1..Len(Handlers) : Accepts(Handlers[i], e)}

NoMatch == "NoMatch"

\* the first registered handler that accepts the update
Route(e) ==
    IF Matching(e) = {} THEN NoMatch
    ELSE Handlers[CHOOSE i \in Matching(e) : \A j \in Matching(e) : i <= j].callback

----------------------------------------------------------------------------
(* Platform calls and backend requests, as recorded in log *)

\* op: answer | delete | send | reply | photo | edit | get
\* target: the message acted on (orig: the message the button was attached
\*   to or the command message; status: the pending indicator), or the
\*   backend endpoint of a get
\* ok: FALSE when the call raised
\* raw: the exception whose str() is interpolated into the text ("none" when
\*   the text interpolates no exception)
Call(op, target, text, kb, ok) ==
    [op |-> op, target |-> target, text |-> text, code |-> 0,
     path |-> << >>, timeout |-> 0, raw |-> "none", kb |-> kb, ok |-> ok]

\* every message sent without reply_markup carries the main menu instead
NoKeyboard_MainMenu == get_main_menu_keyboard

NoKeyboard == << >>

\* a safe_delete_message that deletes nothing
safe_delete_message_Skipped(target, ok) == << >>

\* message.delete() inside safe_delete_message: the exception is swallowed
safe_delete_message(target, ok) == << Call("delete", target, "", NoKeyboard, ok) >>

\* a send_new_message that edits the originating message instead of sending
send_new_message_Edits(e, text, code, kb, ok) ==
    IF effective_chat(e)
    THEN << [Call("edit", "orig", text, kb, ok) EXCEPT !.code = code] >>
    ELSE << >>

\* send_new_message: nothing is sent, and None is returned, without a chat
send_new_message(e, text, code, kb, ok) ==
    IF effective_chat(e)
    THEN << [Call("send", "chat", text, kb, ok) EXCEPT !.code = code] >>
    ELSE << >>

\* update.message.reply_text
reply_text(text, kb, ok) == << Call("reply", "orig", text, kb, ok) >>

\* query.answer()
answer(ok) == << Call("answer", "query", "", NoKeyboard, ok) >>

\* context.bot.send_photo
send_photo(ok) == << Call("photo", "chat", "media", NoKeyboard, ok) >>

\* client.get(url, timeout)
http_get(endpoint, path, timeout) ==
    << [Call("get", endpoint, "", NoKeyboard, TRUE) EXCEPT !.path = path, !.timeout = timeout] >>

----------------------------------------------------------------------------
(* Control *)

At(h, l) == handler = h /\ pc = l

Goto(l) == pc' = l /\ raising' = raising

\* an exception leaves the handler
Raise == pc' = "done" /\ raising' = TRUE

\* an awaited call outside any try block: continue at l, or raise
Await(ok, l) == IF ok THEN Goto(l) ELSE Raise

Returned == pc = "done" /\ ~raising

Raised == pc = "done" /\ raising

\* no backend request has been answered yet
NoResponse == [kind |-> "none", code |-> 0, media |-> FALSE]

\* a message reference: the interaction that sent it and its place in that
\* interaction's log; NoOrigin when the update is not a press on a bot message
NoOrigin == [owner |-> "none", index |-> 0]

Interactions == {"first", "second"}

\* the locals of a handler that has not been entered
Idle ==
    [event |-> NoEvent, handler |-> NoMatch, pc |-> "idle", log |-> << >>,
     project_name |-> None, status_message |-> None, response |-> NoResponse,
     raising |-> FALSE, origin |-> NoOrigin]

NoBody == [kind |-> "none"]

NoView == [kind |-> "none"]

Init ==
    /\ event = NoEvent
    /\ handler = NoMatch
    /\ pc = "idle"
    /\ log = << >>
    /\ project_name = None
    /\ status_message = None
    /\ response = NoResponse
    /\ raising = FALSE
    /\ origin = NoOrigin
    /\ cur = "first"
    /\ suspended = [i \in Interactions |-> Idle]
    /\ body = NoBody
    /\ view = NoView

\* Application.process_update: an update arrives and is routed.  An update no
\* handler accepts is dropped.
Dispatch ==
    /\ pc = "idle"
    /\ \E e \in Events :
        /\ event' = e
        /\ handler' = Route(e)
        /\ pc' = IF Route(e) = NoMatch THEN "done" ELSE "entry"
    /\ UNCHANGED <<log, project_name, status_message, response, raising>>

----------------------------------------------------------------------------
(* start_command, help_command *)

start_command ==
    /\ At("start_command", "entry")
    /\ Goto(IF HasQuery(event) THEN "answer"
            ELSE IF HasUpdateMessage(event) THEN "reply"
            ELSE "done")
    /\ UNCHANGED <<event, handler, log, project_name, status_message, response>>

start_command_answer ==
    /\ At("start_command", "answer")
    /\ \E ok \in BOOLEAN :
        /\ log' = log \o answer(ok)
        /\ Await(ok, "delete")
    /\ UNCHANGED <<event, handler, project_name, status_message, response>>

start_command_delete ==
    /\ At("start_command", "delete")
    /\ \E ok \in BOOLEAN :
        log' = log \o (IF HasQueryMessage(event)
                       THEN safe_delete_message("orig", ok) ELSE << >>)
    /\ Goto("send")
    /\ UNCHANGED <<event, handler, project_name, status_message, response>>

start_command_send ==
    /\ At("start_command", "send")
    /\ \E ok \in BOOLEAN :
        /\ log' = log \o send_new_message(event, "welcome", 0, get_main_menu_keyboard, ok)
        /\ Await(ok \/ ~effective_chat(event), "done")
    /\ UNCHANGED <<event, handler, project_name, status_message, response>>

start_command_reply ==
    /\ At("start_command", "reply")
    /\ \E ok \in BOOLEAN :
        /\ log' = log \o reply_text("welcome", get_main_menu_keyboard, ok)
        /\ Await(ok, "done")
    /\ UNCHANGED <<event, handler, project_name, status_message, response>>

\* help_command awaits start_command(update, context)
help_command ==
    /\ At("help_command", "entry")
    /\ handler' = "start_command"
    /\ UNCHANGED <<event, pc, log, project_name, status_message, response, raising>>

----------------------------------------------------------------------------
(* sentiment_menu *)

sentiment_menu ==
    /\ At("sentiment_menu", "entry")
    /\ Goto(IF HasQuery(event) THEN "answer" ELSE "done")
    /\ UNCHANGED <<event, handler, log, project_name, status_message, response>>

sentiment_menu_answer ==
    /\ At("sentiment_menu", "answer")
    /\ \E ok \in BOOLEAN :
        /\ log' = log \o answer(ok)
        /\ Await(ok, "delete")
    /\ UNCHANGED <<event, handler, project_name, status_message, response>>

sentiment_menu_delete ==
    /\ At("sentiment_menu", "delete")
    /\ \E ok \in BOOLEAN :
        log' = log \o (IF HasQueryMessage(event)
                       THEN safe_delete_message("orig", ok) ELSE << >>)
    /\ Goto("send")
    /\ UNCHANGED <<event, handler, project_name, status_message, response>>

sentiment_menu_send ==
    /\ At("sentiment_menu", "send")
    /\ \E ok \in BOOLEAN :
        /\ log' = log \o send_new_message(event, "sentiment_menu", 0,
                                          get_sentiment_keyboard(None), ok)
        /\ Await(ok \/ ~effective_chat(event), "done")
    /\ UNCHANGED <<event, handler, project_name, status_message, response>>

----------------------------------------------------------------------------
(* analyze_pnl_prompt *)

analyze_pnl_prompt ==
    /\ At("analyze_pnl_prompt", "entry")
    /\ Goto(IF HasQuery(event) THEN "answer" ELSE "done")
    /\ UNCHANGED <<event, handler, log, project_name, status_message, response>>

analyze_pnl_prompt_answer ==
    /\ At("analyze_pnl_prompt", "answer")
    /\ \E ok \in BOOLEAN :
        /\ log' = log \o answer(ok)
        /\ Await(ok, "delete")
    /\ UNCHANGED <<event, handler, project_name, status_message, response>>

analyze_pnl_prompt_delete ==
    /\ At("analyze_pnl_prompt", "delete")
    /\ \E ok \in BOOLEAN :
        log' = log \o (IF HasQueryMessage(event)
                       THEN safe_delete_message("orig", ok) ELSE << >>)
    /\ Goto("send")
    /\ UNCHANGED <<event, handler, project_name, status_message, response>>

analyze_pnl_prompt_send ==
    /\ At("analyze_pnl_prompt", "send")
    /\ \E ok \in BOOLEAN :
        /\ log' = log \o send_new_message(event, "pnl_prompt", 0, get_main_menu_keyboard, ok)
        /\ Await(ok \/ ~effective_chat(event), "done")
    /\ UNCHANGED <<event, handler, project_name, status_message, response>>

----------------------------------------------------------------------------
(* track_wallet_prompt *)

track_wallet_prompt ==
    /\ At("track_wallet_prompt", "entry")
    /\ Goto(IF HasQuery(event) /\ HasQueryMessage(event) THEN "answer" ELSE "done")
    /\ UNCHANGED <<event, handler, log, project_name, status_message, response>>

track_wallet_prompt_answer ==
    /\ At("track_wallet_prompt", "answer")
    /\ \E ok \in BOOLEAN :
        /\ log' = log \o answer(ok)
        /\ Await(ok, "delete")
    /\ UNCHANGED <<event, handler, project_name, status_message, response>>

track_wallet_prompt_delete ==
    /\ At("track_wallet_prompt", "delete")
    /\ \E ok \in BOOLEAN : log' = log \o safe_delete_message("orig", ok)
    /\ Goto("send")
    /\ UNCHANGED <<event, handler, project_name, status_message, response>>

track_wallet_prompt_send ==
    /\ At("track_wallet_prompt", "send")
    /\ \E ok \in BOOLEAN :
        /\ log' = log \o send_new_message(event, "wallet_prompt", 0, get_main_menu_keyboard, ok)
        /\ Await(ok \/ ~effective_chat(event), "done")
    /\ UNCHANGED <<event, handler, project_name, status_message, response>>

----------------------------------------------------------------------------
(* track_wallet_command *)

track_wallet_command ==
    /\ At("track_wallet_command", "entry")
    /\ Goto(IF ~HasUpdateMessage(event) THEN "done"
            ELSE IF Args(event) /= << >> THEN "reply"
            ELSE "usage")
    /\ UNCHANGED <<event, handler, log, project_name, status_message, response>>

track_wallet_command_reply ==
    /\ At("track_wallet_command", "reply")
    /\ \E ok \in BOOLEAN :
        /\ log' = log \o reply_text("tracking", NoKeyboard, ok)
        /\ Await(ok, "done")
    /\ UNCHANGED <<event, handler, project_name, status_message, response>>

track_wallet_command_usage ==
    /\ At("track_wallet_command", "usage")
    /\ \E ok \in BOOLEAN :
        /\ log' = log \o reply_text("usage", NoKeyboard, ok)
        /\ Await(ok, "usage_again")
    /\ UNCHANGED <<event, handler, project_name, status_message, response>>

track_wallet_command_usage_again ==
    /\ At("track_wallet_command", "usage_again")
    /\ \E ok \in BOOLEAN :
        /\ log' = log \o reply_text("usage", NoKeyboard, ok)
        /\ Await(ok, "done")
    /\ UNCHANGED <<event, handler, project_name, status_message, response>>

----------------------------------------------------------------------------
(* subscribe_command *)

subscribe_command ==
    /\ At("subscribe_command", "entry")
    /\ Goto(IF HasQuery(event) /\ HasQueryMessage(event) THEN "answer" ELSE "done")
    /\ UNCHANGED <<event, handler, log, project_name, status_message, response>>

subscribe_command_answer ==
    /\ At("subscribe_command", "answer")
    /\ \E ok \in BOOLEAN :
        /\ log' = log \o answer(ok)
        /\ Await(ok, "delete")
    /\ UNCHANGED <<event, handler, project_name, status_message, response>>

subscribe_command_delete ==
    /\ At("subscribe_command", "delete")
    /\ \E ok \in BOOLEAN : log' = log \o safe_delete_message("orig", ok)
    /\ Goto("send")
    /\ UNCHANGED <<event, handler, project_name, status_message, response>>

subscribe_command_send ==
    /\ At("subscribe_command", "send")
    /\ \E ok \in BOOLEAN :
        /\ log' = log \o send_new_message(event, "subscribe", 0, get_main_menu_keyboard, ok)
        /\ Await(ok \/ ~effective_chat(event), "done")
    /\ UNCHANGED <<event, handler, project_name, status_message, response>>

----------------------------------------------------------------------------
(* The backend *)

StatusCodes == {200, 404, 500, 503}

\* What client.get and the decoding of its body can produce:
\*   status   a response with a status code; media: the sentiment payload's
\*            top_tweet carries a media_url
\*   timeout  httpx.TimeoutException after the timeout given to get
\*   connect  httpx.ConnectError
\*   badbody  a 2xx response whose body response.json() or the rendering
\*            code raises on
Responses(endpoint) ==
    {[kind |-> "status", code |-> c, media |-> FALSE] : c \in StatusCodes}
    \cup (IF endpoint = "project"
          THEN {[kind |-> "status", code |-> 200, media |-> TRUE]} ELSE {})
    \cup {[kind |-> k, code |-> 0, media |-> FALSE] : k \in {"timeout", "connect"}}
    \cup {[kind |-> "badbody", code |-> 200, media |-> FALSE]}

\* response.raise_for_status(): HTTPStatusError unless the status is 2xx
raise_for_status(r) == r.kind = "status" /\ r.code \div 100 /= 2

\* where the try block goes after client.get: the except clause that catches
\* what was raised, or on to the rendering of the result
AfterGet(r) ==
    IF r.kind \in {"timeout", "connect", "badbody"} THEN "except_Exception"
    ELSE IF raise_for_status(r) THEN "except_HTTPStatusError"
    ELSE "send_result"

\* async with httpx.AsyncClient() ... client.get(url, timeout=...)
Get(endpoint, path, timeout) ==
    \E r \in Responses(endpoint) :
        /\ response' = r
        /\ log' = log \o http_get(endpoint, path, timeout)
        /\ Goto(AfterGet(r))

\* an awaited call in the try block: except Exception catches what it raises
InTry(ok, l) == Goto(IF ok THEN l ELSE "except_Exception")

\* the exception bound by `except Exception as e`: what client.get or the
\* decoding raised, else what a send in the try block raised
Caught ==
    IF response.kind \in {"timeout", "connect", "badbody"}
    THEN response.kind ELSE "telegram"

\* f"... An unexpected error occurred: {e}": the text carries str(e)
FormatException(calls, e) ==
    [i \in 1..Len(calls) |-> [calls[i] EXCEPT !.raw = e]]

\* an awaited call in an except clause: the finally clause runs, then what the
\* call raised leaves the handler
InExcept(ok) == pc' = "finally" /\ raising' = (raising \/ ~ok)

\* the cleanup as the last statement of the try block instead of a finally
\* clause: skipped when an exception is propagating
Finally_OnlyOnSuccess ==
    /\ \E ok \in BOOLEAN :
        log' = log \o (IF status_message /= None /\ ~raising
                       THEN safe_delete_message("status", ok) ELSE << >>)
    /\ pc' = "done"
    /\ raising' = raising

\* a cleanup whose delete is not wrapped in try/except: a failed delete
\* leaves the handler as an exception
Finally_DeleteRaises ==
    \E ok \in BOOLEAN :
        /\ log' = log \o (IF status_message /= None
                          THEN safe_delete_message("status", ok) ELSE << >>)
        /\ pc' = "done"
        /\ raising' = (raising \/ (status_message /= None /\ ~ok))

\* finally: if status_message: await safe_delete_message(status_message)
Finally ==
    /\ \E ok \in BOOLEAN :
        log' = log \o (IF status_message /= None
                       THEN safe_delete_message("status", ok) ELSE << >>)
    /\ pc' = "done"
    /\ raising' = raising

\* the Message a successful send returns
Sent(ok) == IF ok THEN Some("status") ELSE None

----------------------------------------------------------------------------
(* sentiment_command *)

SentimentTimeout == 180
OtherTimeout == 60

\* query.data.split('_')[1]: every underscore splits, so the payload ends at
\* the second one
ParsePayload_SplitAll(data) ==
    IF data = << >> THEN None
    ELSE IF Len(Split1(data)) >= 2 THEN Some(Split1(Split1(data)[2])[1])
    ELSE None

\* lines 138-142: query.data.split('_', 1)[1], None when that raises
ParsePayload(data) ==
    IF data = << >> THEN None
    ELSE IF Len(Split1(data)) >= 2 THEN Some(Split1(data)[2])
    ELSE None

sentiment_command ==
    /\ At("sentiment_command", "entry")
    /\ IF HasQuery(event)
       THEN Goto("answer") /\ project_name' = None
       ELSE IF Args(event) /= << >> /\ HasUpdateMessage(event)
       THEN Goto("pending_reply") /\ project_name' = Some(Args(event)[1])
       ELSE Goto(IF HasUpdateMessage(event) THEN "usage" ELSE "done")
            /\ project_name' = None
    /\ UNCHANGED <<event, handler, log, status_message, response>>

sentiment_command_answer ==
    /\ At("sentiment_command", "answer")
    /\ \E ok \in BOOLEAN :
        /\ log' = log \o answer(ok)
        /\ Await(ok, "delete")
        /\ project_name' = IF ok THEN ParsePayload(event.data) ELSE project_name
    /\ UNCHANGED <<event, handler, status_message, response>>

sentiment_command_delete ==
    /\ At("sentiment_command", "delete")
    /\ \E ok \in BOOLEAN :
        log' = log \o (IF HasQueryMessage(event)
                       THEN safe_delete_message("orig", ok) ELSE << >>)
    /\ Goto("pending")
    /\ UNCHANGED <<event, handler, project_name, status_message, response>>

sentiment_command_pending ==
    /\ At("sentiment_command", "pending")
    /\ \E ok \in BOOLEAN :
        /\ log' = log \o send_new_message(event, "digging", 0, NoKeyboard, ok)
        /\ status_message' = IF effective_chat(event) THEN Sent(ok) ELSE None
        /\ Await(ok \/ ~effective_chat(event),
                 IF Truthy(project_name) THEN "get" ELSE "bad_request")
    /\ UNCHANGED <<event, handler, project_name, response>>

sentiment_command_pending_reply ==
    /\ At("sentiment_command", "pending_reply")
    /\ \E ok \in BOOLEAN :
        /\ log' = log \o reply_text("digging", NoKeyboard, ok)
        /\ status_message' = Sent(ok)
        /\ Await(ok, IF Truthy(project_name) THEN "get" ELSE "bad_request")
    /\ UNCHANGED <<event, handler, project_name, response>>

sentiment_command_usage ==
    /\ At("sentiment_command", "usage")
    /\ \E ok \in BOOLEAN :
        /\ log' = log \o reply_text("usage", get_sentiment_keyboard(None), ok)
        /\ Await(ok, "done")
    /\ UNCHANGED <<event, handler, project_name, status_message, response>>

sentiment_command_bad_request ==
    /\ At("sentiment_command", "bad_request")
    /\ \E ok \in BOOLEAN :
        /\ log' = log \o send_new_message(event, "could_not_determine", 0,
                                          get_sentiment_keyboard(None), ok)
        /\ Await(ok \/ ~effective_chat(event), "bad_request_delete")
    /\ UNCHANGED <<event, handler, project_name, status_message, response>>

sentiment_command_bad_request_delete ==
    /\ At("sentiment_command", "bad_request_delete")
    /\ \E ok \in BOOLEAN :
        log' = log \o (IF status_message /= None
                       THEN safe_delete_message("status", ok) ELSE << >>)
    /\ Goto("done")
    /\ UNCHANGED <<event, handler, project_name, status_message, response>>

sentiment_command_get ==
    /\ At("sentiment_command", "get")
    /\ Get("project", capitalize(project_name[1]), SentimentTimeout)
    /\ UNCHANGED <<event, handler, project_name, status_message>>

sentiment_command_send_result ==
    /\ At("sentiment_command", "send_result")
    /\ \E ok \in BOOLEAN :
        /\ log' = log \o send_new_message(event, "sentiment_result", 0,
                                          get_sentiment_keyboard(project_name), ok)
        /\ InTry(ok \/ ~effective_chat(event),
                 IF response.media /\ effective_chat(event)
                 THEN "send_photo" ELSE "finally")
    /\ UNCHANGED <<event, handler, project_name, status_message, response>>

sentiment_command_send_photo ==
    /\ At("sentiment_command", "send_photo")
    /\ \E ok \in BOOLEAN :
        /\ log' = log \o send_photo(ok)
        /\ InTry(ok, "finally")
    /\ UNCHANGED <<event, handler, project_name, status_message, response>>

sentiment_command_except_HTTPStatusError ==
    /\ At("sentiment_command", "except_HTTPStatusError")
    /\ \E ok \in BOOLEAN :
        /\ log' = log \o
              (IF response.code = 404
               THEN send_new_message(event, "no_data", 0,
                                     get_sentiment_keyboard(project_name), ok)
               ELSE send_new_message(event, "server_error", response.code,
                                     get_sentiment_keyboard(project_name), ok))
        /\ InExcept(ok \/ ~effective_chat(event))
    /\ UNCHANGED <<event, handler, project_name, status_message, response>>

sentiment_command_except_Exception ==
    /\ At("sentiment_command", "except_Exception")
    /\ \E ok \in BOOLEAN :
        /\ log' = log \o FormatException(
              send_new_message(event, "unexpected_error", 0,
                               get_sentiment_keyboard(project_name), ok),
              Caught)
        /\ InExcept(ok \/ ~effective_chat(event))
    /\ UNCHANGED <<event, handler, project_name, status_message, response>>

sentiment_command_finally ==
    /\ At("sentiment_command", "finally")
    /\ Finally
    /\ UNCHANGED <<event, handler, project_name, status_message, response>>

----------------------------------------------------------------------------
(* sentiment_history_command *)

\* line 234: query.data.split('_', 1)[1] if query and query.data else None
HistoryPayload(e) ==
    IF HasQuery(e) /\ e.data /= << >> THEN Some(Split1(e.data)[2]) ELSE None

\* (project_name or '')
OrEmpty(p) == IF Truthy(p) THEN p[1] ELSE << >>

sentiment_history_command ==
    /\ At("sentiment_history_command", "entry")
    /\ IF HasQuery(event)
       THEN Goto("answer") /\ project_name' = project_name
       ELSE Goto("delete") /\ project_name' = HistoryPayload(event)
    /\ UNCHANGED <<event, handler, log, status_message, response>>

sentiment_history_command_answer ==
    /\ At("sentiment_history_command", "answer")
    /\ \E ok \in BOOLEAN :
        /\ log' = log \o answer(ok)
        /\ IF ok /\ Len(Split1(event.data)) < 2 THEN Raise ELSE Await(ok, "delete")
        /\ project_name' = IF ok /\ Len(Split1(event.data)) >= 2
                           THEN HistoryPayload(event) ELSE project_name
    /\ UNCHANGED <<event, handler, status_message, response>>

sentiment_history_command_delete ==
    /\ At("sentiment_history_command", "delete")
    /\ \E ok \in BOOLEAN :
        log' = log \o (IF HasQuery(event) /\ HasQueryMessage(event)
                       THEN safe_delete_message("orig", ok) ELSE << >>)
    /\ Goto("pending")
    /\ UNCHANGED <<event, handler, project_name, status_message, response>>

sentiment_history_command_pending ==
    /\ At("sentiment_history_command", "pending")
    /\ \E ok \in BOOLEAN :
        /\ log' = log \o send_new_message(event, "fetching_history", 0, NoKeyboard, ok)
        /\ status_message' = IF effective_chat(event) THEN Sent(ok) ELSE None
        /\ Await(ok \/ ~effective_chat(event), "get")
    /\ UNCHANGED <<event, handler, project_name, response>>

sentiment_history_command_get ==
    /\ At("sentiment_history_command", "get")
    /\ Get("history", capitalize(OrEmpty(project_name)), OtherTimeout)
    /\ UNCHANGED <<event, handler, project_name, status_message>>

sentiment_history_command_send_result ==
    /\ At("sentiment_history_command", "send_result")
    /\ \E ok \in BOOLEAN :
        /\ log' = log \o send_new_message(event, "history_result", 0,
                                          get_sentiment_keyboard(project_name), ok)
        /\ InTry(ok \/ ~effective_chat(event), "finally")
    /\ UNCHANGED <<event, handler, project_name, status_message, response>>

sentiment_history_command_except_HTTPStatusError ==
    /\ At("sentiment_history_command", "except_HTTPStatusError")
    /\ \E ok \in BOOLEAN :
        /\ log' = log \o send_new_message(event, "server_error", response.code,
                                          get_sentiment_keyboard(project_name), ok)
        /\ InExcept(ok \/ ~effective_chat(event))
    /\ UNCHANGED <<event, handler, project_name, status_message, response>>

sentiment_history_command_except_Exception ==
    /\ At("sentiment_history_command", "except_Exception")
    /\ \E ok \in BOOLEAN :
        /\ log' = log \o FormatException(
              send_new_message(event, "unexpected_error", 0,
                               get_sentiment_keyboard(project_name), ok),
              Caught)
        /\ InExcept(ok \/ ~effective_chat(event))
    /\ UNCHANGED <<event, handler, project_name, status_message, response>>

sentiment_history_command_finally ==
    /\ At("sentiment_history_command", "finally")
    /\ Finally
    /\ UNCHANGED <<event, handler, project_name, status_message, response>>

----------------------------------------------------------------------------
(* analyze_pnl_command *)

analyze_pnl_command ==
    /\ At("analyze_pnl_command", "entry")
    /\ IF Args(event) = << >>
       THEN Goto(IF HasUpdateMessage(event) THEN "usage" ELSE "done")
            /\ project_name' = project_name
       ELSE Goto(IF HasUpdateMessage(event) THEN "pending_reply" ELSE "get")
            /\ project_name' = Some(Args(event)[1])
    /\ UNCHANGED <<event, handler, log, status_message, response>>

analyze_pnl_command_usage ==
    /\ At("analyze_pnl_command", "usage")
    /\ \E ok \in BOOLEAN :
        /\ log' = log \o reply_text("usage", NoKeyboard, ok)
        /\ Await(ok, "done")
    /\ UNCHANGED <<event, handler, project_name, status_message, response>>

analyze_pnl_command_pending_reply ==
    /\ At("analyze_pnl_command", "pending_reply")
    /\ \E ok \in BOOLEAN :
        /\ log' = log \o reply_text("fetching_pnl", NoKeyboard, ok)
        /\ status_message' = Sent(ok)
        /\ Await(ok, "get")
    /\ UNCHANGED <<event, handler, project_name, response>>

analyze_pnl_command_get ==
    /\ At("analyze_pnl_command", "get")
    /\ Get("pnl", capitalize(project_name[1]), OtherTimeout)
    /\ UNCHANGED <<event, handler, project_name, status_message>>

analyze_pnl_command_send_result ==
    /\ At("analyze_pnl_command", "send_result")
    /\ \E ok \in BOOLEAN :
        /\ log' = log \o send_new_message(event, "pnl_result", 0,
                                          get_main_menu_keyboard, ok)
        /\ InTry(ok \/ ~effective_chat(event), "finally")
    /\ UNCHANGED <<event, handler, project_name, status_message, response>>

analyze_pnl_command_except_HTTPStatusError ==
    /\ At("analyze_pnl_command", "except_HTTPStatusError")
    /\ \E ok \in BOOLEAN :
        /\ log' = log \o
              (IF response.code = 404
               THEN send_new_message(event, "no_data", 0, get_main_menu_keyboard, ok)
               ELSE send_new_message(event, "server_error", response.code,
                                     get_main_menu_keyboard, ok))
        /\ InExcept(ok \/ ~effective_chat(event))
    /\ UNCHANGED <<event, handler, project_name, status_message, response>>

analyze_pnl_command_except_Exception ==
    /\ At("analyze_pnl_command", "except_Exception")
    /\ \E ok \in BOOLEAN :
        /\ log' = log \o FormatException(
              send_new_message(event, "unexpected_error", 0,
                               get_main_menu_keyboard, ok),
              Caught)
        /\ InExcept(ok \/ ~effective_chat(event))
    /\ UNCHANGED <<event, handler, project_name, status_message, response>>

analyze_pnl_command_finally ==
    /\ At("analyze_pnl_command", "finally")
    /\ Finally
    /\ UNCHANGED <<event, handler, project_name, status_message, response>>

----------------------------------------------------------------------------
(* top_projects_command *)

top_projects_command ==
    /\ At("top_projects_command", "entry")
    /\ Goto(IF HasQuery(event) /\ HasQueryMessage(event) THEN "answer"
            ELSE IF HasUpdateMessage(event) THEN "pending"
            ELSE "done")
    /\ UNCHANGED <<event, handler, log, project_name, status_message, response>>

top_projects_command_answer ==
    /\ At("top_projects_command", "answer")
    /\ \E ok \in BOOLEAN :
        /\ log' = log \o answer(ok)
        /\ Await(ok, "delete")
    /\ UNCHANGED <<event, handler, project_name, status_message, response>>

top_projects_command_delete ==
    /\ At("top_projects_command", "delete")
    /\ \E ok \in BOOLEAN : log' = log \o safe_delete_message("orig", ok)
    /\ Goto("pending")
    /\ UNCHANGED <<event, handler, project_name, status_message, response>>

\* the pending indicator: sent as a new message after a button press, as a
\* reply to a typed command
top_projects_command_pending ==
    /\ At("top_projects_command", "pending")
    /\ \E ok \in BOOLEAN :
        IF HasQuery(event) /\ HasQueryMessage(event)
        THEN /\ log' = log \o send_new_message(event, "fetching_trending", 0,
                                               NoKeyboard, ok)
             /\ status_message' = IF effective_chat(event) THEN Sent(ok) ELSE None
             /\ Await(ok \/ ~effective_chat(event), "get")
        ELSE /\ log' = log \o reply_text("fetching_trending", NoKeyboard, ok)
             /\ status_message' = Sent(ok)
             /\ Await(ok, "get")
    /\ UNCHANGED <<event, handler, project_name, response>>

top_projects_command_get ==
    /\ At("top_projects_command", "get")
    /\ Get("trending", << >>, OtherTimeout)
    /\ UNCHANGED <<event, handler, project_name, status_message>>

top_projects_command_send_result ==
    /\ At("top_projects_command", "send_result")
    /\ \E ok \in BOOLEAN :
        /\ log' = log \o send_new_message(event, "trending_result", 0,
                                          get_main_menu_keyboard, ok)
        /\ InTry(ok \/ ~effective_chat(event), "finally")
    /\ UNCHANGED <<event, handler, project_name, status_message, response>>

top_projects_command_except_HTTPStatusError ==
    /\ At("top_projects_command", "except_HTTPStatusError")
    /\ \E ok \in BOOLEAN :
        /\ log' = log \o send_new_message(event, "server_error", response.code,
                                          get_main_menu_keyboard, ok)
        /\ InExcept(ok \/ ~effective_chat(event))
    /\ UNCHANGED <<event, handler, project_name, status_message, response>>

top_projects_command_except_Exception ==
    /\ At("top_projects_command", "except_Exception")
    /\ \E ok \in BOOLEAN :
        /\ log' = log \o FormatException(
              send_new_message(event, "unexpected_error", 0,
                               get_main_menu_keyboard, ok),
              Caught)
        /\ InExcept(ok \/ ~effective_chat(event))
    /\ UNCHANGED <<event, handler, project_name, status_message, response>>

top_projects_command_finally ==
    /\ At("top_projects_command", "finally")
    /\ Finally
    /\ UNCHANGED <<event, handler, project_name, status_message, response>>

----------------------------------------------------------------------------
(* The program *)

\* a statement of a handler leaves everything but the handler's locals alone
Stmt(A) == A /\ UNCHANGED <<origin, cur, suspended, body, view>>

\* one statement of the handler that holds the event loop
HandlerStep ==
    \/ Stmt(start_command)
    \/ Stmt(start_command_answer)
    \/ Stmt(start_command_delete)
    \/ Stmt(start_command_send)
    \/ Stmt(start_command_reply)
    \/ Stmt(help_command)
    \/ Stmt(sentiment_menu)
    \/ Stmt(sentiment_menu_answer)
    \/ Stmt(sentiment_menu_delete)
    \/ Stmt(sentiment_menu_send)
    \/ Stmt(analyze_pnl_prompt)
    \/ Stmt(analyze_pnl_prompt_answer)
    \/ Stmt(analyze_pnl_prompt_delete)
    \/ Stmt(analyze_pnl_prompt_send)
    \/ Stmt(track_wallet_prompt)
    \/ Stmt(track_wallet_prompt_answer)
    \/ Stmt(track_wallet_prompt_delete)
    \/ Stmt(track_wallet_prompt_send)
    \/ Stmt(track_wallet_command)
    \/ Stmt(track_wallet_command_reply)
    \/ Stmt(track_wallet_command_usage)
    \/ Stmt(track_wallet_command_usage_again)
    \/ Stmt(subscribe_command)
    \/ Stmt(subscribe_command_answer)
    \/ Stmt(subscribe_command_delete)
    \/ Stmt(subscribe_command_send)
    \/ Stmt(sentiment_command)
    \/ Stmt(sentiment_command_answer)
    \/ Stmt(sentiment_command_delete)
    \/ Stmt(sentiment_command_pending)
    \/ Stmt(sentiment_command_pending_reply)
    \/ Stmt(sentiment_command_usage)
    \/ Stmt(sentiment_command_bad_request)
    \/ Stmt(sentiment_command_bad_request_delete)
    \/ Stmt(sentiment_command_get)
    \/ Stmt(sentiment_command_send_result)
    \/ Stmt(sentiment_command_send_photo)
    \/ Stmt(sentiment_command_except_HTTPStatusError)
    \/ Stmt(sentiment_command_except_Exception)
    \/ Stmt(sentiment_command_finally)
    \/ Stmt(sentiment_history_command)
    \/ Stmt(sentiment_history_command_answer)
    \/ Stmt(sentiment_history_command_delete)
    \/ Stmt(sentiment_history_command_pending)
    \/ Stmt(sentiment_history_command_get)
    \/ Stmt(sentiment_history_command_send_result)
    \/ Stmt(sentiment_history_command_except_HTTPStatusError)
    \/ Stmt(sentiment_history_command_except_Exception)
    \/ Stmt(sentiment_history_command_finally)
    \/ Stmt(analyze_pnl_command)
    \/ Stmt(analyze_pnl_command_usage)
    \/ Stmt(analyze_pnl_command_pending_reply)
    \/ Stmt(analyze_pnl_command_get)
    \/ Stmt(analyze_pnl_command_send_result)
    \/ Stmt(analyze_pnl_command_except_HTTPStatusError)
    \/ Stmt(analyze_pnl_command_except_Exception)
    \/ Stmt(analyze_pnl_command_finally)
    \/ Stmt(top_projects_command)
    \/ Stmt(top_projects_command_answer)
    \/ Stmt(top_projects_command_delete)
    \/ Stmt(top_projects_command_pending)
    \/ Stmt(top_projects_command_get)
    \/ Stmt(top_projects_command_send_result)
    \/ Stmt(top_projects_command_except_HTTPStatusError)
    \/ Stmt(top_projects_command_except_Exception)
    \/ Stmt(top_projects_command_finally)

\* one update, handled to completion
Next == Stmt(Dispatch) \/ HandlerStep

Spec == Init /\ [][Next]_vars

----------------------------------------------------------------------------
(* Concurrent interactions in one chat.  Every statement modelled above is  *)
(* at most one await, and between two awaits of one handler the event loop  *)
(* may run statements of another handler; the interactions share nothing    *)
(* but the chat, whose messages are the successful sends of their logs.     *)

\* the messages in the chat before the first update: the welcome menu, as
\* start_command sends it, and a menu left by an earlier deployment, one of
\* whose buttons carries a token without a project
Earlier ==
    << Call("send", "chat", "welcome", get_main_menu_keyboard, TRUE),
       Call("send", "chat", "sentiment_menu", << <<"sentiment", "_">> >>, TRUE) >>

\* the locals of the handler that holds the event loop
Locals ==
    [event |-> event, handler |-> handler, pc |-> pc, log |-> log,
     project_name |-> project_name, status_message |-> status_message,
     response |-> response, raising |-> raising, origin |-> origin]

LocalsOf(i) == IF i = cur THEN Locals ELSE suspended[i]

MessageAt(ref) ==
    IF ref.owner = "earlier" THEN Earlier[ref.index]
    ELSE LocalsOf(ref.owner).log[ref.index]

\* a message of the chat: a send or a reply that did not raise
IsMessage(c) == c.op \in {"send", "reply"} /\ c.ok

MessagesOf(i) ==
    {[owner |-> i, index |-> k] :
        k \in {n \in 1..Len(LocalsOf(i).log) : IsMessage(LocalsOf(i).log[n])}}

Chat ==
    {[owner |-> "earlier", index |-> k] : k \in 1..Len(Earlier)}
    \cup UNION {MessagesOf(i) : i \in Interactions}

\* the callback_data of the buttons under a message (reply_markup)
Buttons(ref) == {MessageAt(ref).kb[n] : n \in 1..Len(MessageAt(ref).kb)}

\* a user presses a button under a message of the chat
Press ==
    /\ pc = "idle"
    /\ \E ref \in Chat : \E t \in Buttons(ref) :
        LET e == [kind |-> "button", data |-> t, message |-> TRUE]
        IN  /\ event' = e
            /\ origin' = ref
            /\ handler' = Route(e)
            /\ pc' = IF Route(e) = NoMatch THEN "done" ELSE "entry"
    /\ UNCHANGED <<log, project_name, status_message, response, raising,
                   cur, suspended, body, view>>

\* the commands a user types: each command, bare or with one project
TypedInChat ==
    {c \in TypedCommands : c.message /\ c.args \in {<< >>, << <<"Solana">> >>}}

\* a user types a command
Type ==
    /\ pc = "idle"
    /\ \E e \in TypedInChat :
        /\ event' = e
        /\ handler' = Route(e)
        /\ pc' = IF Route(e) = NoMatch THEN "done" ELSE "entry"
    /\ UNCHANGED <<log, project_name, status_message, response, raising,
                   origin, cur, suspended, body, view>>

\* the handler holding the event loop is parked at its await and another
\* interaction runs; the first update arrives first
Switch ==
    /\ pc /= "idle"
    /\ \E j \in Interactions \ {cur} :
        /\ suspended[j].pc /= "done"
        /\ cur' = j
        /\ suspended' = [suspended EXCEPT ![cur] = Locals, ![j] = Idle]
        /\ event' = suspended[j].event
        /\ handler' = suspended[j].handler
        /\ pc' = suspended[j].pc
        /\ log' = suspended[j].log
        /\ project_name' = suspended[j].project_name
        /\ status_message' = suspended[j].status_message
        /\ response' = suspended[j].response
        /\ raising' = suspended[j].raising
        /\ origin' = suspended[j].origin
    /\ UNCHANGED <<body, view>>

ConcurrentNext == Press \/ Type \/ Switch \/ HandlerStep

Concurrent == Init /\ [][ConcurrentNext]_vars

----------------------------------------------------------------------------
(* The rendering code: what sentiment_command and sentiment_history_command *)
(* make of a decoded response body                                          *)

Percent(n) == n * ScoreUnit

Scores == (0 - Percent(ScoreMargin))..Percent(100 + ScoreMargin)

\* int(n / d) of Python: truncation towards zero
int(n, d) == IF n >= 0 THEN n \div d ELSE 0 - ((0 - n) \div d)

\* round(n / d) of Python, and the .0f format: to nearest, ties to even
round(n, d) ==
    LET q == n \div d
        r == n % d
    IN  IF 2 * r < d THEN q
        ELSE IF 2 * r > d THEN q + 1
        ELSE IF q % 2 = 0 THEN q ELSE q + 1

max(a, b) == IF a >= b THEN a ELSE b

min(a, b) == IF a <= b THEN a ELSE b

\* glyph * n: the empty string when n is negative
Repeat(glyph, n) == [i \in 1..n |-> glyph]

\* a mood whose bands exclude their lower boundary
Mood_StrictBands(score) ==
    IF score > Percent(70) THEN "Bullish"
    ELSE IF score > Percent(50) THEN "Neutral"
    ELSE "Bearish"

\* line 177
Mood(score) ==
    IF score >= Percent(70) THEN "Bullish"
    ELSE IF score >= Percent(50) THEN "Neutral"
    ELSE "Bearish"

DefaultBarLength == 10

\* a create_bar without the clamp of line 223
create_bar_Unclamped(score, length) ==
    LET filled_len == int(length * score, Percent(100))
    IN  Repeat("filled", filled_len) \o Repeat("empty", length - filled_len)

\* a create_bar that rounds to the nearest glyph
create_bar_Rounds(score, length) ==
    LET clamped == max(0, min(Percent(100), score))
        filled_len == round(length * clamped, Percent(100))
    IN  Repeat("filled", filled_len) \o Repeat("empty", length - filled_len)

\* lines 221-225
create_bar(score, length) ==
    LET clamped == max(0, min(Percent(100), score))
        filled_len == int(length * clamped, Percent(100))
    IN  Repeat("filled", filled_len) \o Repeat("empty", length - filled_len)

\* the 'date' string of a history entry dated the given day of the month, as
\* the backend formats it (%Y-%m-%d, zero-padded): its two day digits; year
\* and month are a prefix common to all entries
isoformat(day) == << day \div 10, day % 10 >>

\* comparison of two str, character by character
RECURSIVE StrLeq(_, _)
StrLeq(a, b) ==
    IF a = << >> THEN TRUE
    ELSE IF b = << >> THEN FALSE
    ELSE IF a[1] /= b[1] THEN a[1] < b[1]
    ELSE StrLeq(Tail(a), Tail(b))

\* datetime.strptime(date, '%Y-%m-%d'): the day the string denotes
strptime(date) == 10 * date[1] + date[2]

DayNames == << "Mon", "Tue", "Wed", "Thu", "Fri", "Sat", "Sun" >>

\* date_obj.strftime('%a')
strftime(day) == DayNames[(day % 7) + 1]

\* a history_data.sort that leaves the list as the backend sent it
sort_by_date_Unsorted(entries) == entries

\* line 255: history_data.sort(key=lambda x: x.get('date', '')), a stable sort
\* on the date strings
RECURSIVE sort_by_date(_)
sort_by_date(entries) ==
    IF entries = << >> THEN << >>
    ELSE LET e == entries[Len(entries)]
             sorted == sort_by_date(SubSeq(entries, 1, Len(entries) - 1))
             k == Cardinality({n \in 1..Len(sorted) : StrLeq(sorted[n].date, e.date)})
         IN  SubSeq(sorted, 1, k) \o << e >> \o SubSeq(sorted, k + 1, Len(sorted))

\* lines 257-261: f"<code>{day_name}: {bar} {score:.0f}%</code>"
HistoryLine(entry) ==
    [day_name |-> strftime(strptime(entry.date)),
     bar |-> create_bar(entry.score, DefaultBarLength),
     percent |-> round(entry.score, ScoreUnit)]

\* lines 251-262
RenderHistoryBody(entries) ==
    IF entries = << >>
    THEN [kind |-> "history", found |-> FALSE, lines |-> << >>]
    ELSE [kind |-> "history", found |-> TRUE,
          lines |-> [n \in 1..Len(entries) |-> HistoryLine(sort_by_date(entries)[n])]]

\* the scores of history entries: a whole and a fractional number of glyphs
HistoryScores == {Percent(30), Percent(56)}

\* the entries are dated the three days up to MaxDay
HistoryEntries ==
    [date : {isoformat(d) : d \in (MaxDay - 2)..MaxDay}, score : HistoryScores]

\* the decoded bodies handed to the rendering code
Bodies ==
    [kind : {"sentiment"}, score : Scores]
    \cup [kind : {"bar"}, score : Scores, length : 0..MaxBarLength]
    \cup [kind : {"history"}, entries : SeqsUpTo(HistoryEntries, MaxEntries)]

RenderInit ==
    /\ event = NoEvent
    /\ handler = NoMatch
    /\ pc = "idle"
    /\ log = << >>
    /\ project_name = None
    /\ status_message = None
    /\ response = NoResponse
    /\ raising = FALSE
    /\ origin = NoOrigin
    /\ cur = "first"
    /\ suspended = [i \in Interactions |-> Idle]
    /\ body \in Bodies
    /\ view = NoView

\* a rendering step touches nothing but the view
Render(v) ==
    /\ view = NoView
    /\ view' = v
    /\ UNCHANGED <<event, handler, pc, log, project_name, status_message,
                   response, raising, origin, cur, suspended, body>>

\* lines 173-184 of sentiment_command
RenderSentiment ==
    /\ body.kind = "sentiment"
    /\ Render([kind |-> "sentiment", mood |-> Mood(body.score)])

\* a call of create_bar
RenderBar ==
    /\ body.kind = "bar"
    /\ Render([kind |-> "bar", bar |-> create_bar(body.score, body.length)])

\* lines 251-262 of sentiment_history_command
RenderHistory ==
    /\ body.kind = "history"
    /\ Render(RenderHistoryBody(body.entries))

RenderNext == RenderSentiment \/ RenderBar \/ RenderHistory

Rendering == RenderInit /\ [][RenderNext]_vars

----------------------------------------------------------------------------
(* Vocabulary of the properties *)

\* handlers that call the backend
UpstreamHandlers ==
    {"sentiment_command", "sentiment_history_command",
     "analyze_pnl_command", "top_projects_command"}

\* handlers that only show a menu or a prompt
StaticHandlers ==
    {"start_command", "sentiment_menu", "analyze_pnl_prompt",
     "track_wallet_prompt", "subscribe_command"}

PendingTexts == {"digging", "fetching_history", "fetching_pnl", "fetching_trending"}

ResultTexts == {"sentiment_result", "history_result", "pnl_result", "trending_result"}

ErrorTexts == {"no_data", "server_error", "unexpected_error"}

MenuTexts == {"welcome", "sentiment_menu", "pnl_prompt", "wallet_prompt", "subscribe"}

Finished == pc = "done"

Indices == 1..Len(log)

Requests == {i \in Indices : log[i].op = "get"}

\* the operations of log, in order
OpsOf(l) == [i \in 1..Len(l) |-> <<l[i].op, l[i].target>>]

\* the last logged call is a platform call that raised
LastCallRaised == Len(log) > 0 /\ ~log[Len(log)].ok

----------------------------------------------------------------------------
(* C1: in a handler that calls the backend, once the pending indicator has  *)
(* been emitted and the backend request issued, the interaction's last      *)
(* platform call is an attempted delete of that indicator - whether the     *)
(* request succeeded, returned an error status, timed out or failed to      *)
(* connect, and also when sending the result or the error message raised    *)
(* (the handler then ends by raising, after the delete).                    *)
C1_PendingDeletedLast ==
    (/\ Finished
     /\ handler \in UpstreamHandlers
     /\ status_message /= None
     /\ Requests /= {})
    => /\ log[Len(log)].op = "delete"
       /\ log[Len(log)].target = "status"

\* the error message itself could not be sent, and the indicator was still
\* deleted last
C1_Witness ==
    /\ Raised
    /\ handler \in UpstreamHandlers
    /\ status_message /= None
    /\ response.kind = "timeout"
    /\ Len(log) >= 2
    /\ log[Len(log) - 1].text = "unexpected_error"
    /\ ~log[Len(log) - 1].ok
    /\ log[Len(log)].op = "delete"
    /\ log[Len(log)].target = "status"

(* C2: when query.answer() raises, the handler still goes on to send its    *)
(* pending indicator, menu, result or error (stated for the updates that    *)
(* have a chat to send to).                                                 *)
C2_AckFailureStillResolves ==
    (/\ Finished
     /\ effective_chat(event)
     /\ \E i \in Indices : log[i].op = "answer" /\ ~log[i].ok)
    => \E j \in Indices : log[j].op \in {"send", "reply"}

(* C3: every button press routed to a handler is acknowledged, and the      *)
(* acknowledgment is the first platform call or backend request of the      *)
(* interaction, also when the press has no originating message.             *)
C3_AckFirst ==
    (/\ Finished
     /\ event.kind = "button"
     /\ handler /= NoMatch)
    => /\ Len(log) >= 1
       /\ log[1].op = "answer"

(* C4 as stated: a static menu handler resolves a button press by editing   *)
(* the originating message in place and never deletes it and sends a        *)
(* replacement.                                                             *)
C4_ButtonMenuEditsInPlace ==
    (/\ Returned
     /\ handler \in StaticHandlers
     /\ event.kind = "button")
    => /\ \E i \in Indices : log[i].op = "edit" /\ log[i].target = "orig"
       /\ ~ \E i, j \in Indices :
              /\ i < j
              /\ log[i].op = "delete" /\ log[i].target = "orig"
              /\ log[j].op = "send"

(* C4 as amended: a static menu handler never edits a message.  A button    *)
(* press with an originating message is resolved by acknowledging it,       *)
(* attempting to delete the originating message and sending the menu as a   *)
(* new message; a typed /start or /help is resolved by one reply.           *)
C4_ButtonMenuDeletesAndResends ==
    handler \in StaticHandlers =>
       /\ \A i \in Indices : log[i].op /= "edit"
       /\ (Returned /\ HasQueryMessage(event)) =>
             /\ OpsOf(log) = << <<"answer", "query">>, <<"delete", "orig">>,
                                <<"send", "chat">> >>
             /\ log[3].text \in MenuTexts
       /\ (Returned /\ HasUpdateMessage(event)) =>
             /\ OpsOf(log) = << <<"reply", "orig">> >>
             /\ log[1].text = "welcome"

C4_Witness ==
    /\ Returned
    /\ handler = "sentiment_menu"
    /\ HasQueryMessage(event)
    /\ Len(log) = 3
    /\ log[2].op = "delete"
    /\ log[3].op = "send"
    /\ log[3].text = "sentiment_menu"

(* C5: a handler that calls the backend never edits a message: its result   *)
(* and its error are each sent with bot.send_message, as a new message, for *)
(* typed commands and button presses alike.                                 *)
C5_ResultIsNewMessage ==
    handler \in UpstreamHandlers =>
        \A i \in Indices :
            /\ log[i].op /= "edit"
            /\ log[i].text \in ResultTexts \cup ErrorTexts => log[i].op = "send"

C5_Witness ==
    /\ Returned
    /\ handler = "sentiment_history_command"
    /\ event.kind = "button"
    /\ \E i \in Indices :
          log[i].text = "history_result" /\ log[i].op = "send" /\ log[i].ok

(* C6: an interaction issues at most one backend request, and a failed      *)
(* request (non-2xx status, timeout, connection failure) is followed in the *)
(* same interaction by the sending of an error message.                     *)
C6_FailureIsReported ==
    /\ Cardinality(Requests) <= 1
    /\ (/\ Finished
        /\ Requests /= {}
        /\ \/ response.kind \in {"timeout", "connect"}
           \/ raise_for_status(response))
       => \E i \in Requests : \E j \in Indices :
             /\ i < j
             /\ log[j].op = "send"
             /\ log[j].text \in ErrorTexts

(* C7: callback routing is unambiguous: at most one registered handler      *)
(* accepts a callback token; menu_sentiment is dispatched to sentiment_menu *)
(* and a token that starts with menu_ is never dispatched to the handler of *)
(* the sentiment_ or of the history_ prefix.                                *)
StartsWith(s, p) == Len(s) >= Len(p) /\ \A i \in 1..Len(p) : s[i] = p[i]

C7_RoutingUnambiguous ==
    event.kind = "button" =>
        /\ Cardinality(Matching(event)) <= 1
        /\ event.data = <<"menu", "_", "sentiment">> => handler = "sentiment_menu"
        /\ StartsWith(event.data, <<"menu", "_">>) =>
              handler \notin {"sentiment_command", "sentiment_history_command"}

C7_Witness ==
    /\ event.kind = "button"
    /\ event.data = <<"menu", "_", "sentiment">>
    /\ handler = "sentiment_menu"
    /\ pc = "answer"

\* what follows the first underscore of s (s has one)
AfterFirstUnderscore(s) ==
    LET k == CHOOSE n \in 1..Len(s) :
                 s[n] = "_" /\ \A m \in 1..(n - 1) : s[m] /= "_"
    IN  [i \in 1..(Len(s) - k) |-> s[k + i]]

(* C8: a button token sentiment_<payload> is dispatched to                  *)
(* sentiment_command, which takes everything after the first underscore as  *)
(* the project.  With an empty payload the handler issues no backend        *)
(* request and does not raise on the token: it takes the 'could not         *)
(* determine the project' branch, raises only if a platform call raises,    *)
(* and where the press has a chat it returns having sent that message.      *)
C8_SentimentPayload ==
    (event.kind = "button" /\ StartsWith(event.data, <<"sentiment", "_">>)) =>
        LET payload == AfterFirstUnderscore(event.data)
        IN  /\ handler = "sentiment_command"
            /\ (Len(log) >= 1 /\ log[1].ok) => project_name = Some(payload)
            /\ payload = << >> =>
                  /\ Requests = {}
                  /\ pc \in {"entry", "answer", "delete", "pending",
                             "bad_request", "bad_request_delete", "done"}
                  /\ Raised => LastCallRaised
                  /\ (Returned /\ effective_chat(event)) =>
                        \E i \in Indices :
                            /\ log[i].op = "send"
                            /\ log[i].text = "could_not_determine"
                            /\ log[i].ok
            /\ payload /= << >> =>
                  /\ pc \notin {"bad_request", "bad_request_delete"}
                  /\ \A i \in Indices : log[i].text /= "could_not_determine"

C8_Witness ==
    /\ Returned
    /\ event.kind = "button"
    /\ event.data = <<"sentiment", "_">>
    /\ project_name = Some(<< >>)
    /\ Requests = {}
    /\ \E i \in Indices : log[i].text = "could_not_determine" /\ log[i].ok

\* the project identifier an update carries: the payload of its token, or
\* its first argument; empty when there is none
IdentifierOf(e) ==
    IF e.kind = "button" THEN AfterFirstUnderscore(e.data)
    ELSE IF e.args = << >> THEN << >>
    ELSE e.args[1]

(* C9: in the handlers that take a project identifier (sentiment, history,  *)
(* PNL) an empty or missing identifier causes no backend request (stated    *)
(* for the updates that have a chat to answer in).                          *)
C9_EmptyIdentifierNoRequest ==
    (/\ effective_chat(event)
     /\ handler \in {"sentiment_command", "sentiment_history_command",
                     "analyze_pnl_command"}
     /\ IdentifierOf(event) = << >>)
    => Requests = {}

(* C10: for every endpoint a 404 is rendered with the not-found copy, and   *)
(* any other non-2xx status as a server error carrying its status code.     *)
C10_NotFoundCopy ==
    \A i \in Indices :
        (log[i].op = "send" /\ log[i].text \in {"no_data", "server_error"}) =>
            IF response.code = 404
            THEN log[i].text = "no_data"
            ELSE log[i].text = "server_error" /\ log[i].code = response.code

----------------------------------------------------------------------------
\* C11: when the backend request timed out or could not connect, no message
\* sent to the user carries the raw exception: the rendering is a generic
\* apology.
C11_TimeoutRenderedGenerically ==
    response.kind \in {"timeout", "connect"} =>
        \A i \in Indices :
            log[i].op \in {"send", "reply"} => log[i].raw = "none"

----------------------------------------------------------------------------
\* this step is a message.delete() that raised
DeleteFailed ==
    /\ Len(log') = Len(log) + 1
    /\ log'[Len(log')].op = "delete"
    /\ ~log'[Len(log')].ok

\* the statement after a delete that succeeded: the pending indicator or the
\* menu after the originating message, the end of the handler after the
\* pending indicator
AfterDeleteSucceeded ==
    IF pc = "delete"
    THEN (IF handler \in UpstreamHandlers THEN "pending" ELSE "send")
    ELSE "done"

\* C12: a delete that fails (of the originating message or of the pending
\* indicator) is swallowed: the handler goes on to the statement it would have
\* reached had the delete succeeded, with every local unchanged and no
\* exception raised, so it sends the same messages from there on.
C12_FailedDeleteSwallowed ==
    [][DeleteFailed =>
          /\ pc' = AfterDeleteSucceeded
          /\ raising' = raising
          /\ UNCHANGED <<event, handler, project_name, status_message, response>>]_vars

\* a press whose originating message and pending indicator both failed to
\* delete, and whose result was sent in between; the handler returned
C12_Witness ==
    /\ Returned
    /\ \E i, j, k \in Indices :
        /\ i < j /\ j < k
        /\ log[i].op = "delete" /\ log[i].target = "orig" /\ ~log[i].ok
        /\ log[j].op = "send" /\ log[j].text \in ResultTexts /\ log[j].ok
        /\ log[k].op = "delete" /\ log[k].target = "status" /\ ~log[k].ok

----------------------------------------------------------------------------
\* C13: under every interleaving of two interactions in one chat, the
\* originating message an interaction deletes is never a pending indicator
\* (its own or another interaction's), the pending indicator it deletes is
\* the one it sent itself, and an interaction that issued its backend request
\* and came to its end has sent its own result or error message.
C13_PendingDeletedOnlyByOwner ==
    \A i \in Interactions :
        LET l == LocalsOf(i)
            deletes(t) == {n \in 1..Len(l.log) :
                              l.log[n].op = "delete" /\ l.log[n].target = t}
        IN  /\ deletes("orig") /= {} =>
                    /\ l.origin /= NoOrigin
                    /\ MessageAt(l.origin).text \notin PendingTexts
            /\ \A n \in deletes("status") :
                    \E m \in 1..(n - 1) :
                        /\ IsMessage(l.log[m])
                        /\ l.log[m].text \in PendingTexts
            /\ (l.pc = "done" /\ \E n \in 1..Len(l.log) : l.log[n].op = "get") =>
                    \E n \in 1..Len(l.log) :
                        /\ l.log[n].op = "send"
                        /\ l.log[n].text \in ResultTexts \cup ErrorTexts

\* two presses under the same message are in flight together: the first has
\* sent its result and deleted its pending indicator while the second, which
\* also deleted the shared originating message, still shows its own
C13_Witness ==
    LET a == LocalsOf("first")
        b == LocalsOf("second")
    IN  /\ a.origin /= NoOrigin /\ a.origin = b.origin
        /\ a.pc = "done" /\ ~a.raising
        /\ \E n \in 1..Len(a.log) : a.log[n].op = "send" /\ a.log[n].text \in ResultTexts
        /\ \E n \in 1..Len(a.log) : a.log[n].op = "delete" /\ a.log[n].target = "status"
        /\ b.pc = "get" /\ b.status_message /= None
        /\ \E n \in 1..Len(b.log) : b.log[n].op = "delete" /\ b.log[n].target = "orig"

----------------------------------------------------------------------------
\* the copy rendered for a missing or empty project identifier and for a
\* project the backend does not know
BadRequestTexts == {"usage", "could_not_determine"}

NotFoundTexts == {"no_data"}

\* C14: every message that /sentiment, /pnl, a sentiment_ press or a history_
\* press renders for a missing or empty project identifier, or for a project
\* the backend does not know, carries a keyboard.
C14_RecoveryKeyboard ==
    handler \in {"sentiment_command", "sentiment_history_command",
                 "analyze_pnl_command"} =>
        \A i \in Indices :
            (/\ log[i].op \in {"send", "reply"}
             /\ log[i].text \in BadRequestTexts \cup NotFoundTexts)
                => log[i].kb /= NoKeyboard

----------------------------------------------------------------------------
\* C15: for a score between 0 and 100 the rendered mood is Bullish exactly
\* from 70 up, Neutral exactly from 50 up to but excluding 70, and Bearish
\* exactly below 50.
C15_MoodBands ==
    (/\ view.kind = "sentiment"
     /\ body.score >= 0
     /\ body.score <= Percent(100)) =>
        /\ view.mood = "Bullish" <=> body.score >= Percent(70)
        /\ view.mood = "Neutral" <=>
               (body.score >= Percent(50) /\ body.score < Percent(70))
        /\ view.mood = "Bearish" <=> body.score < Percent(50)

\* the boundary score 70 rendered Bullish
C15_Witness ==
    /\ view.kind = "sentiment"
    /\ body.score = Percent(70)
    /\ view.mood = "Bullish"

----------------------------------------------------------------------------
\* C16: create_bar returns exactly length glyphs for every score, in or out
\* of [0, 100]: all empty for 0, all filled for 100, and for a score above
\* 100 or below 0 the bar of 100 or of 0.
C16_BarLength ==
    view.kind = "bar" =>
        /\ Len(view.bar) = body.length
        /\ body.score = 0 => view.bar = Repeat("empty", body.length)
        /\ body.score = Percent(100) => view.bar = Repeat("filled", body.length)
        /\ body.score > Percent(100) =>
               view.bar = create_bar(Percent(100), body.length)
        /\ body.score < 0 => view.bar = create_bar(0, body.length)

\* create_bar(105) with the default length: ten glyphs, all filled
C16_Witness ==
    /\ view.kind = "bar"
    /\ body.score = Percent(105)
    /\ body.length = DefaultBarLength
    /\ view.bar = Repeat("filled", DefaultBarLength)

----------------------------------------------------------------------------
FilledCount(bar) == Cardinality({i \in 1..Len(bar) : bar[i] = "filled"})

\* a bar of default length drawn for a score between 0 and 100
DefaultBarDrawn ==
    /\ view.kind = "bar"
    /\ body.length = DefaultBarLength
    /\ body.score >= 0
    /\ body.score <= Percent(100)

\* C17 as stated: for a score between 0 and 100 and length 10 the number of
\* filled glyphs is length * score / 100 rounded to the nearest integer.
C17_FilledIsRounded ==
    DefaultBarDrawn =>
        FilledCount(view.bar) = round(body.length * body.score, Percent(100))

\* C17 amended: for a score between 0 and 100 and length 10 the number of
\* filled glyphs is length * score / 100 rounded down: the greatest k with
\* k <= length * score / 100.
C17_FilledIsTruncated ==
    DefaultBarDrawn =>
        LET k == FilledCount(view.bar)
        IN  /\ k * Percent(100) <= body.length * body.score
            /\ body.length * body.score < (k + 1) * Percent(100)

\* the score 56 fills five glyphs of ten
C17_Witness ==
    /\ DefaultBarDrawn
    /\ body.score = Percent(56)
    /\ FilledCount(view.bar) = 5

----------------------------------------------------------------------------
\* the arrangements of n entries
Arrangements(n) ==
    {p \in [1..n -> 1..n] : \A i, j \in 1..n : p[i] = p[j] => i = j}

\* C18: in whatever order the backend returns the entries, the history view
\* has one line per entry, and its lines are the entries' lines arranged by
\* ascending date.
C18_HistoryAscending ==
    (view.kind = "history" /\ body.entries /= << >>) =>
        LET entries == body.entries
            n == Len(entries)
        IN  /\ Len(view.lines) = n
            /\ \E p \in Arrangements(n) :
                /\ \A i, j \in 1..n :
                       i < j => strptime(entries[p[i]].date)
                                    <= strptime(entries[p[j]].date)
                /\ \A i \in 1..n : view.lines[i] = HistoryLine(entries[p[i]])

\* the backend returned the 10th before the 9th, and the view lists the 9th
\* first
C18_Witness ==
    /\ view.kind = "history"
    /\ Len(body.entries) = 2
    /\ body.entries[1].date = isoformat(10)
    /\ body.entries[2].date = isoformat(9)
    /\ view.lines[1].day_name = strftime(9)
    /\ view.lines[2].day_name = strftime(10)

----------------------------------------------------------------------------
\* C19: once the result message of an interaction has been sent
\* successfully, no error message is sent in that interaction.
C19_ResultOrErrorNotBoth ==
    \A i, j \in Indices :
        (/\ i < j
         /\ log[i].op = "send" /\ log[i].text \in ResultTexts /\ log[i].ok
         /\ log[j].op = "send")
            => log[j].text \notin ErrorTexts

----------------------------------------------------------------------------
\* C20: when sentiment_command has handled a press whose token carries no
\* project and has come to its end, by returning or by raising, the pending
\* indicator it sent has been deleted.
C20_EmptyPayloadIndicatorDeleted ==
    (/\ handler = "sentiment_command"
     /\ HasQuery(event)
     /\ ~Truthy(project_name)
     /\ status_message /= None
     /\ Finished)
        => \E i \in Indices :
               log[i].op = "delete" /\ log[i].target = "status"

----------------------------------------------------------------------------
\* the typed commands that require an argument
ArgumentCommands == {"sentiment", "pnl", "trackwallet"}

\* the usage replies sent so far
UsageReplies ==
    {i \in Indices : log[i].op \in {"send", "reply"} /\ log[i].text = "usage"}

\* C21: when the handler of a typed /sentiment, /pnl or /trackwallet without
\* an argument has returned, it has sent exactly one usage reply, no pending
\* indicator, and no backend request.
C21_OneUsageReply ==
    (/\ event.kind = "command"
     /\ event.name \in ArgumentCommands
     /\ event.message
     /\ Args(event) = << >>
     /\ Returned)
        => /\ Cardinality(UsageReplies) = 1
           /\ \A i \in Indices : log[i].text \notin PendingTexts
           /\ Requests = {}

====
